---- MODULE Spec2Model ----
(***************************************************************************)
(* Model of the oficio ingestion pipeline: PDF splitting heuristics,       *)
(* quantity validation on the email / direct-upload / service paths and    *)
(* the retry poller.                                                       *)
(*                                                                         *)
(* A PDF is a sequence of pages.  A page is abstracted to the outcome of   *)
(* the text detectors of the path that reads it:                           *)
(*   "sep"   - the path's separator detector matches the page              *)
(*   "start" - the email path's document-start detector matches the page   *)
(*   "text"  - neither matches                                             *)
(* Page indices are 0-based as in the source; pdf[i + 1] is page i.        *)
(* A page both email detectors match acts as "sep" while the separator     *)
(* detection works and as "start" when it falls back to [], so every       *)
(* handling of such a page is the handling of one of the three kinds.      *)
(*                                                                         *)
(* Specifications:                                                         *)
(*   SpecSplit    - the grouping functions on drawn inputs                 *)
(*   SpecEmail    - process_s3_email_event on one email                    *)
(*   SpecS3       - process_s3_event on one direct upload                  *)
(*   SpecValidate - the three quantity validators on the same counts       *)
(*   SpecRetry    - the retry poller, the processor and the clock          *)
(*   SpecOverlap  - two invocations of the retry poller, call by call      *)
(*   SpecOcr      - the OCR processors handling a batch oficio message      *)
(*   SpecCrm      - the CRM integrator handling a CRM queue message         *)
(***************************************************************************)
EXTENDS Integers, Sequences, FiniteSets, TLC

\* ---------------------------------------------------------------- bounds
MaxPages == 5
MaxDeclared == 4
MaxFaults == 1          \* calls to S3 / SQS / DynamoDB / PyPDF2 that fail in one handling

VARIABLES
    pdf,                \* pages of the bundled PDF
    declared,           \* quantity written in the email body / config page
    fn,                 \* SpecSplit: the grouping function that was applied
    groups,             \* SpecSplit: its result, a list of page lists
    pc,                 \* handler position: "idle", "received", "done"
    outcome,            \* which return / raise ended the handler
    exception_raised,   \* some call raised during the handling (caught or not)
    explicit_separators,\* detect_explicit_separators result / separador_pages
    oficio_starts,      \* detect_document_starts result (<<>> when not computed)
    strategy,           \* grouping strategy that produced oficio_groups
    oficio_groups,      \* page lists, one per sub-document
    oficios,            \* oficio records the handler holds after storing them
    validation_result,  \* result of the quantity validation
    s3_objects,         \* individual oficio PDFs written to S3
    ocr_queue,          \* messages on the OCR queue
    batch_records,      \* BATCH_SUMMARY items in the tracking table
    notifications,      \* notifications the handler invoked
    extracted,          \* SpecValidate: the extracted count handed to the validators
    email_decision,     \* SpecValidate: proceed / halt on the email path
    s3_decision,        \* SpecValidate: proceed / halt on the direct-upload path
    validator_decision, \* SpecValidate: proceed / halt of OficiosValidator
    job,                \* SpecRetry: the job item in the jobs table
    now,                \* SpecRetry: the clock, in minutes
    processing_queue,   \* SpecRetry: re-processing messages on the queue
    last_poll,          \* SpecRetry: what the poller last did with the job
    failures,           \* times the processor put the job in status 'error'
    requeued,           \* re-processing messages the poller sent for the job
    invocations,        \* SpecOverlap: position and scanned item of each poller run
    ocr_handler,        \* SpecOcr: which OCR processor is deployed on the queue
    crm_queue_url,      \* CRM_QUEUE_URL is configured
    ocr_pc,             \* SpecOcr: position of the processor in the handling
    tracking_status,    \* status of the job in the tracking table
    ocr_result,         \* the object jobs/{job_id}/result.json in S3
    crm_queue,          \* messages for the job sent to the CRM queue
    deliveries,         \* times the job's message was handed to a handler
    ocr_log,            \* SpecOcr: effects of the current handling, in order
    ocr_succeeded,      \* SpecOcr: the OCR extraction of this handling succeeded
    crm_sent,           \* SpecOcr: this handling sent the CRM message
    ocr_returned,       \* SpecOcr: what the handling returned
    crm_pc,             \* SpecCrm: position of the integrator in the handling
    crm_attempt,        \* SpecCrm: failed attempts of the Creatio request
    crm_status,         \* SpecCrm: status the handling asks update_tracking_status for
    crm_cases,          \* SpecCrm: cases created in the CRM for the job
    batch_counters,     \* SpecCrm: completed_count / error_count of the batch
    crm_case_created,   \* SpecCrm: the last handling created a case
    crm_returned        \* SpecCrm: what the last handling returned

splitVars == <<fn, groups>>
handlerVars == <<pc, outcome, exception_raised, explicit_separators, oficio_starts,
                 strategy, oficio_groups, oficios, validation_result, s3_objects,
                 ocr_queue, batch_records, notifications>>
validateVars == <<extracted, email_decision, s3_decision, validator_decision>>
retryVars == <<job, now, processing_queue, last_poll, failures, requeued>>
overlapVars == <<invocations>>
ocrVars == <<ocr_handler, crm_queue_url, ocr_pc, tracking_status, ocr_result,
             crm_queue, deliveries, ocr_log, ocr_succeeded, crm_sent, ocr_returned>>
crmVars == <<crm_pc, crm_attempt, crm_status, crm_cases, batch_counters,
             crm_case_created, crm_returned>>
backendVars == <<retryVars, overlapVars, ocrVars, crmVars>>
frontVars == <<pdf, declared, splitVars, handlerVars, validateVars>>
otherVars == <<frontVars, ocrVars, crmVars>>
vars == <<pdf, declared, splitVars, handlerVars, validateVars, backendVars>>

\* ------------------------------------------------------- generic helpers
\* list(range(a, b))
Range(a, b) == IF b > a THEN [i \in 1..(b - a) |-> a + i - 1] ELSE <<>>

Max2(a, b) == IF a >= b THEN a ELSE b
Min2(a, b) == IF a <= b THEN a ELSE b

\* `for page_num in range(from, len(pages)): if <detector matches>: append(page_num)`:
\* the ascending list of the 0-based indices >= from whose page is of kind `kind`
RECURSIVE PagesOfKind(_, _, _)
PagesOfKind(p, from, kind) ==
    IF from >= Len(p) THEN <<>>
    ELSE (IF p[from + 1] = kind THEN <<from>> ELSE <<>>) \o PagesOfKind(p, from + 1, kind)

\* ------------------------------------------- email_processor: grouping
RECURSIVE ExplicitLoop(_, _, _, _)
ExplicitLoop(separators, i, current_start, acc) ==
    IF i > Len(separators) THEN <<current_start, acc>>
    ELSE LET separator == separators[i]
             acc2 == IF separator > current_start /\ Range(current_start, separator) # <<>>
                     THEN Append(acc, Range(current_start, separator))
                     ELSE acc
         IN ExplicitLoop(separators, i + 1, separator + 1, acc2)

\* a plausible slip: the next group starts ON the separator page
RECURSIVE ExplicitLoop_KeepsSeparator(_, _, _, _)
ExplicitLoop_KeepsSeparator(separators, i, current_start, acc) ==
    IF i > Len(separators) THEN <<current_start, acc>>
    ELSE LET separator == separators[i]
             acc2 == IF separator > current_start
                     THEN Append(acc, Range(current_start, separator))
                     ELSE acc
         IN ExplicitLoop_KeepsSeparator(separators, i + 1, separator, acc2)

group_pages_by_explicit_separators_KeepsSeparator(total_pages, separators) ==
    LET r == ExplicitLoop_KeepsSeparator(separators, 1, 0, <<>>)
        last == IF r[1] < total_pages THEN Append(r[2], Range(r[1], total_pages)) ELSE r[2]
    IN SelectSeq(last, LAMBDA g : Len(g) > 0)

group_pages_by_explicit_separators(total_pages, separators) ==
    LET r == ExplicitLoop(separators, 1, 0, <<>>)
        current_start == r[1]
        last == IF current_start < total_pages /\ Range(current_start, total_pages) # <<>>
                THEN Append(r[2], Range(current_start, total_pages))
                ELSE r[2]
    IN SelectSeq(last, LAMBDA g : Len(g) > 0)

RECURSIVE StartsLoop(_, _, _, _)
StartsLoop(total_pages, starts, i, acc) ==
    IF i > Len(starts) THEN acc
    ELSE LET start_page == starts[i]
             end_page == IF i + 1 <= Len(starts) THEN starts[i + 1] ELSE total_pages
             pages == Range(start_page, end_page)
         IN StartsLoop(total_pages, starts, i + 1,
                       IF pages # <<>> THEN Append(acc, pages) ELSE acc)

\* a plausible slip: a group runs up to and including the next start page
RECURSIVE StartsLoop_Overlap(_, _, _, _)
StartsLoop_Overlap(total_pages, starts, i, acc) ==
    IF i > Len(starts) THEN acc
    ELSE LET start_page == starts[i]
             end_page == IF i + 1 <= Len(starts) THEN starts[i + 1] + 1 ELSE total_pages
             pages == Range(start_page, end_page)
         IN StartsLoop_Overlap(total_pages, starts, i + 1,
                               IF pages # <<>> THEN Append(acc, pages) ELSE acc)

group_pages_by_document_starts_Overlap(total_pages, starts) ==
    StartsLoop_Overlap(total_pages, starts, 1, <<>>)

group_pages_by_document_starts(total_pages, starts) ==
    StartsLoop(total_pages, starts, 1, <<>>)

\* i is the 0-based loop index of `for i in range(estimated_docs)`
RECURSIVE EstimationLoop(_, _, _, _, _, _)
EstimationLoop(total_pages, estimated_docs, pages_per_doc, i, current_page, acc) ==
    IF i >= estimated_docs THEN acc
    ELSE LET end_page == IF i = estimated_docs - 1 THEN total_pages
                         ELSE Min2(current_page + pages_per_doc, total_pages)
             pages == Range(current_page, end_page)
             acc2 == IF current_page < total_pages /\ pages # <<>>
                     THEN Append(acc, pages) ELSE acc
         IN EstimationLoop(total_pages, estimated_docs, pages_per_doc, i + 1, end_page, acc2)

\* a plausible slip: the last document is cut like the others and the remainder is lost
RECURSIVE EstimationLoop_NoRemainder(_, _, _, _, _, _)
EstimationLoop_NoRemainder(total_pages, estimated_docs, pages_per_doc, i, current_page, acc) ==
    IF i >= estimated_docs THEN acc
    ELSE LET end_page == Min2(current_page + pages_per_doc, total_pages)
             pages == Range(current_page, end_page)
             acc2 == IF current_page < total_pages /\ pages # <<>>
                     THEN Append(acc, pages) ELSE acc
         IN EstimationLoop_NoRemainder(total_pages, estimated_docs, pages_per_doc,
                                       i + 1, end_page, acc2)

divide_by_page_estimation_NoRemainder(total_pages, cantidad_declarada) ==
    LET estimated_docs == IF cantidad_declarada <= 0
                          THEN Max2(1, total_pages \div 2)
                          ELSE cantidad_declarada
        pages_per_doc == Max2(1, total_pages \div estimated_docs)
    IN EstimationLoop_NoRemainder(total_pages, estimated_docs, pages_per_doc, 0, 0, <<>>)

\* a plausible slip: pages_per_doc rounded up instead of down
divide_by_page_estimation_RoundUp(total_pages, cantidad_declarada) ==
    LET estimated_docs == IF cantidad_declarada <= 0
                          THEN Max2(1, total_pages \div 2)
                          ELSE cantidad_declarada
        pages_per_doc == Max2(1, (total_pages + estimated_docs - 1) \div estimated_docs)
    IN EstimationLoop(total_pages, estimated_docs, pages_per_doc, 0, 0, <<>>)

divide_by_page_estimation(total_pages, cantidad_declarada) ==
    LET estimated_docs == IF cantidad_declarada <= 0
                          THEN Max2(1, total_pages \div 2)
                          ELSE cantidad_declarada
        pages_per_doc == Max2(1, total_pages \div estimated_docs)
    IN EstimationLoop(total_pages, estimated_docs, pages_per_doc, 0, 0, <<>>)

\* ------------------------------------------- services/pdf_service: split
\* _create_oficio_from_pages(start_page, end_page) holds range(start_page, end_page)
RECURSIVE ServiceLoop(_, _, _)
ServiceLoop(separator_pages, i, acc) ==
    IF i > Len(separator_pages) THEN acc
    ELSE LET start_page == IF i = 1 THEN 0 ELSE separator_pages[i - 1] + 1
             end_page == separator_pages[i]
         IN ServiceLoop(separator_pages, i + 1,
                        IF end_page > start_page
                        THEN Append(acc, Range(start_page, end_page)) ELSE acc)

PDFService_split_by_separators(total_pages, separator_pages) ==
    LET acc == ServiceLoop(separator_pages, 1, <<>>)
        n == Len(separator_pages)
    IN IF n > 0 /\ separator_pages[n] + 1 < total_pages
       THEN Append(acc, Range(separator_pages[n] + 1, total_pages))
       ELSE acc

\* ------------------------------------- s3_document_processor: split
\* ranges are inclusive (start, end) pairs
RECURSIVE S3RangesLoop(_, _, _, _)
S3RangesLoop(separador_pages, i, prev_page, ranges) ==
    IF i > Len(separador_pages) THEN <<prev_page, ranges>>
    ELSE LET sep_page == separador_pages[i]
         IN S3RangesLoop(separador_pages, i + 1, sep_page + 1,
                         IF sep_page > prev_page
                         THEN Append(ranges, <<prev_page, sep_page - 1>>)
                         ELSE ranges)

split_by_separators(separador_pages, start_page, total_pages) ==
    LET r == S3RangesLoop(separador_pages, 1, start_page, <<>>)
        prev_page == r[1]
        ranges == IF prev_page < total_pages
                  THEN Append(r[2], <<prev_page, total_pages - 1>>)
                  ELSE r[2]
    IN [k \in 1..Len(ranges) |-> Range(ranges[k][1], ranges[k][2] + 1)]

\* start_page as split_pdf_into_oficios_skip_config / count_separators_in_pdf set it
S3StartPage(total_pages) == IF total_pages > 1 THEN 1 ELSE 0

\* ------------------------------------------------ properties of groupings
PagesOf(gs) == UNION {{gs[g][i] : i \in DOMAIN gs[g]} : g \in DOMAIN gs}

\* how many (group, position) slots of gs hold page p
Occurrences(gs, p) ==
    Cardinality({<<g, i>> \in (DOMAIN gs) \X (0..MaxPages + 1) :
                    i \in DOMAIN gs[g] /\ gs[g][i] = p})

\* all PDFs of at most MaxPages pages over the given page kinds
PDFs(kinds) == UNION {[1..n -> kinds] : n \in 0..MaxPages}

\* ascending list of the members of a finite set of numbers: sorted(list(set(..)))
RECURSIVE SortedList(_)
SortedList(S) ==
    IF S = {} THEN <<>>
    ELSE LET m == CHOOSE x \in S : \A y \in S : x <= y
         IN <<m>> \o SortedList(S \ {m})

SeqToSet(q) == {q[i] : i \in DOMAIN q}

\* ------------------------------------------------------------- faults
\* A fault is a call that raises when the handler makes it: `site` names the
\* call and `at` the 1-based occurrence of the call that raises (0: any).
FaultSites ==
    [site : {"reader", "detect_separators", "detect_starts", "count_separators",
             "split", "extract_config", "dynamo"}, at : {0}]
    \cup [site : {"put_object", "send_message"}, at : 1..MaxPages]

RECURSIVE FaultSets(_)
FaultSets(k) ==
    IF k = 0 THEN {{}}
    ELSE FaultSets(k - 1) \cup {F \cup {f} : F \in FaultSets(k - 1), f \in FaultSites}

Fails(F, site, at) == [site |-> site, at |-> at] \in F

NoValidation ==
    [success |-> FALSE, validation_status |-> "none",
     cantidad_declarada |-> -1, cantidad_extraida |-> -1]

\* an item of the jobs table; retry_scheduled_at = -1 when the attribute is
\* absent; error_message is the set of lower-cased fragments it contains
NoJob == [status |-> "none", retry_count |-> 0, error_at |-> 0,
          retry_attempted_at |-> 0, error_message |-> {},
          retry_scheduled_at |-> -1]

NoPoll == [list |-> "none", item |-> NoJob, at |-> 0, retried |-> FALSE,
           sent |-> 0, returned |-> FALSE, after |-> NoJob]

ValidateIdle ==
    /\ extracted = 0 /\ email_decision = "none" /\ s3_decision = "none"
    /\ validator_decision = "none"

RetryIdle ==
    /\ job = NoJob /\ now = 0 /\ processing_queue = 0 /\ last_poll = NoPoll
    /\ failures = 0 /\ requeued = 0

OverlapIdle == invocations = <<>>

OcrIdle ==
    /\ ocr_handler = "none" /\ crm_queue_url = FALSE /\ ocr_pc = "idle"
    /\ tracking_status = "none" /\ ocr_result = "none" /\ crm_queue = 0
    /\ deliveries = 0 /\ ocr_log = <<>> /\ ocr_succeeded = FALSE
    /\ crm_sent = FALSE /\ ocr_returned = "none"

CrmIdle ==
    /\ crm_pc = "idle" /\ crm_attempt = 0 /\ crm_status = "none"
    /\ crm_cases = 0 /\ batch_counters = [completed_count |-> 0, error_count |-> 0]
    /\ crm_case_created = FALSE /\ crm_returned = "none"

BackendIdle == RetryIdle /\ OverlapIdle /\ OcrIdle /\ CrmIdle

HandlerIdle ==
    /\ pc = "idle" /\ outcome = "none" /\ exception_raised = FALSE
    /\ explicit_separators = <<>> /\ oficio_starts = <<>> /\ strategy = "none"
    /\ oficio_groups = <<>> /\ oficios = <<>> /\ validation_result = NoValidation
    /\ s3_objects = <<>> /\ ocr_queue = <<>> /\ batch_records = <<>>
    /\ notifications = <<>>

\* =====================================================================
\* email_processor: split_pdf_into_oficios_smart and the validation
\* =====================================================================
\* an exception while reading a page makes the detector return []
detect_explicit_separators(p, F) ==
    IF Fails(F, "detect_separators", 0) /\ Len(p) >= 1 THEN <<>>
    ELSE PagesOfKind(p, 0, "sep")

\* page 0 is always a start; an exception makes the detector return [0]
detect_document_starts(p, F) ==
    IF Fails(F, "detect_starts", 0) /\ Len(p) >= 2 THEN <<0>>
    ELSE SortedList({0} \cup SeqToSet(PagesOfKind(p, 1, "start")))

\* a plausible slip: `len(oficio_starts) > 0`, which page 0 always satisfies
SelectStrategy_AnyStart(separators, starts) ==
    IF separators # <<>> THEN "explicit_separators"
    ELSE IF Len(starts) > 0 THEN "document_starts"
    ELSE "page_estimation"

SelectStrategy(separators, starts) ==
    IF separators # <<>> THEN "explicit_separators"
    ELSE IF Len(starts) > 1 THEN "document_starts"
    ELSE "page_estimation"

\* the body of split_pdf_into_oficios_smart once the reader is open
SplitSmart(p, cantidad_declarada, F) ==
    LET total_pages == Len(p)
        seps == detect_explicit_separators(p, F)
        \* detect_document_starts runs only in the else branch
        starts == IF seps # <<>> THEN <<>> ELSE detect_document_starts(p, F)
        strat == SelectStrategy(seps, starts)
        grps == CASE strat = "explicit_separators" ->
                        group_pages_by_explicit_separators(total_pages, seps)
                  [] strat = "document_starts" ->
                        group_pages_by_document_starts(total_pages, starts)
                  [] OTHER ->
                        divide_by_page_estimation(total_pages, cantidad_declarada)
        \* an oficio whose PDF cannot be built or stored is skipped (`continue`)
        kept == SelectSeq([i \in 1..Len(grps) |->
                              [sequence_number |-> i, page_range |-> grps[i]]],
                          LAMBDA o : ~Fails(F, "put_object", o.sequence_number))
    IN [explicit_separators |-> seps, oficio_starts |-> starts, strategy |-> strat,
        oficio_groups |-> grps, oficios |-> kept,
        raised |-> \/ Fails(F, "detect_separators", 0) /\ total_pages >= 1
                   \/ seps = <<>> /\ Fails(F, "detect_starts", 0) /\ total_pages >= 2
                   \/ \E i \in 1..Len(grps) : Fails(F, "put_object", i)]

\* a plausible slip: a count mismatch halts the email path as it does the upload path
ValidateEmail_MismatchHalts(cantidad_declarada, cantidad_extraida) ==
    LET st == IF cantidad_declarada = 0 THEN "no_declaration_proceeding"
              ELSE IF cantidad_extraida = 0 THEN "no_oficios_found"
              ELSE IF cantidad_declarada = cantidad_extraida THEN "exact_match"
              ELSE "mismatch"
    IN [success |-> st \in {"no_declaration_proceeding", "exact_match"},
        validation_status |-> st,
        cantidad_declarada |-> cantidad_declarada,
        cantidad_extraida |-> cantidad_extraida]

\* the validation of process_pdf_with_validation_improved
ValidateEmail(cantidad_declarada, cantidad_extraida) ==
    LET st == IF cantidad_declarada = 0 THEN "no_declaration_proceeding"
              ELSE IF cantidad_extraida = 0 THEN "no_oficios_found"
              ELSE IF cantidad_declarada = cantidad_extraida THEN "exact_match"
              ELSE IF cantidad_extraida > 0 THEN "partial_match"
              ELSE "mismatch"
    IN [success |-> st \in {"no_declaration_proceeding", "exact_match", "partial_match"},
        validation_status |-> st,
        cantidad_declarada |-> cantidad_declarada,
        cantidad_extraida |-> cantidad_extraida]

\* the `except` result of process_pdf_with_validation_improved
TechnicalError ==
    [success |-> FALSE, validation_status |-> "error",
     cantidad_declarada |-> -1, cantidad_extraida |-> -1]

\* create_ocr_jobs: one message per oficio, in order; the first send that
\* raises ends the loop and the exception propagates
SendFailsAt(F, n) == {k \in 1..n : Fails(F, "send_message", k)}

FirstFailingSend(F, n) == CHOOSE k \in SendFailsAt(F, n) : \A j \in SendFailsAt(F, n) : k <= j

create_ocr_jobs(ofs, F) ==
    IF SendFailsAt(F, Len(ofs)) = {}
    THEN [sent |-> [i \in 1..Len(ofs) |-> ofs[i].sequence_number], raised |-> FALSE]
    ELSE [sent |-> [i \in 1..(FirstFailingSend(F, Len(ofs)) - 1) |-> ofs[i].sequence_number],
          raised |-> TRUE]

InitEmail ==
    /\ pdf \in PDFs({"text", "sep", "start"})
    /\ declared \in 0..MaxDeclared
    /\ fn = "none" /\ groups = <<>>
    /\ pc = "received" /\ outcome = "none" /\ exception_raised = FALSE
    /\ explicit_separators = <<>> /\ oficio_starts = <<>> /\ strategy = "none"
    /\ oficio_groups = <<>> /\ oficios = <<>> /\ validation_result = NoValidation
    /\ s3_objects = <<>> /\ ocr_queue = <<>> /\ batch_records = <<>>
    /\ notifications = <<>>
    /\ ValidateIdle /\ BackendIdle

\* process_s3_email_event, early returns: the object is not under emails/,
\* the email cannot be parsed, or it carries no PDF attachment
EmailIgnored ==
    /\ pc = "received"
    /\ \E why \in {"not_email", "unparseable", "no_pdf"} :
          /\ outcome' = why
          /\ notifications' = IF why = "no_pdf" THEN <<"no_pdf_error">> ELSE <<>>
    /\ pc' = "done"
    /\ UNCHANGED <<pdf, declared, splitVars, validateVars, backendVars, exception_raised, explicit_separators,
                   oficio_starts, strategy, oficio_groups, oficios, validation_result,
                   s3_objects, ocr_queue, batch_records>>

\* process_s3_email_event on an email with a PDF attachment whose reader
\* cannot be opened: the validation returns the technical error and halts
EmailPdfUnreadable ==
    /\ pc = "received"
    /\ \E F \in FaultSets(MaxFaults) : Fails(F, "reader", 0)
    /\ pc' = "done"
    /\ outcome' = "validation_failed"
    /\ exception_raised' = TRUE
    /\ validation_result' = TechnicalError
    /\ notifications' = <<"validation_error">>
    /\ UNCHANGED <<pdf, declared, splitVars, validateVars, backendVars, explicit_separators, oficio_starts, strategy,
                   oficio_groups, oficios, s3_objects, ocr_queue, batch_records>>

\* process_s3_email_event on an email with a readable PDF attachment
ProcessS3EmailEvent ==
    /\ pc = "received"
    /\ \E F \in FaultSets(MaxFaults) :
          /\ ~Fails(F, "reader", 0)
          /\ LET sp == SplitSmart(pdf, declared, F)
                 vr == ValidateEmail(declared, Len(sp.oficios))
                 jobs == create_ocr_jobs(sp.oficios, F)
                 record_fails == Fails(F, "dynamo", 0)
             IN /\ explicit_separators' = sp.explicit_separators
                /\ oficio_starts' = sp.oficio_starts
                /\ strategy' = sp.strategy
                /\ oficio_groups' = sp.oficio_groups
                /\ oficios' = sp.oficios
                /\ s3_objects' = [i \in 1..Len(sp.oficios) |-> sp.oficios[i].page_range]
                /\ validation_result' = vr
                /\ IF ~vr.success
                   THEN /\ outcome' = "validation_failed"
                        /\ notifications' = <<"validation_error">>
                        /\ ocr_queue' = <<>>
                        /\ batch_records' = <<>>
                        /\ exception_raised' = sp.raised
                   ELSE /\ ocr_queue' = jobs.sent
                        /\ IF jobs.raised
                           THEN /\ outcome' = "raised"
                                /\ batch_records' = <<>>
                                /\ notifications' = <<>>
                                /\ exception_raised' = TRUE
                           ELSE /\ outcome' = "processed"
                                /\ batch_records' =
                                      IF record_fails THEN <<>>
                                      ELSE <<[total_oficios |-> Len(sp.oficios),
                                              validation_status |-> vr.validation_status]>>
                                /\ notifications' = <<"success">>
                                /\ exception_raised' = (sp.raised \/ record_fails)
    /\ pc' = "done"
    /\ UNCHANGED <<pdf, declared, splitVars, validateVars, backendVars>>

NextEmail ==
    \/ EmailIgnored
    \/ EmailPdfUnreadable
    \/ ProcessS3EmailEvent

SpecEmail == InitEmail /\ [][NextEmail]_vars

EmailStrategies == {"explicit_separators", "document_starts", "page_estimation"}

\* C1: split_pdf_into_oficios_smart uses exactly one strategy per PDF, in a
\* fixed order: explicit separators whenever one was detected; otherwise
\* document starts whenever more than one start was detected; otherwise page
\* estimation by the declared quantity.  A later strategy is never used when
\* an earlier one's condition holds.
C1_StrategyOrder ==
    (pc = "done" /\ strategy \in EmailStrategies) =>
        /\ explicit_separators # <<>> =>
              /\ strategy = "explicit_separators"
              /\ oficio_groups =
                    group_pages_by_explicit_separators(Len(pdf), explicit_separators)
        /\ (explicit_separators = <<>> /\ Len(oficio_starts) > 1) =>
              /\ strategy = "document_starts"
              /\ oficio_groups = group_pages_by_document_starts(Len(pdf), oficio_starts)
        /\ (explicit_separators = <<>> /\ Len(oficio_starts) <= 1) =>
              /\ strategy = "page_estimation"
              /\ oficio_groups = divide_by_page_estimation(Len(pdf), declared)
        /\ ~exception_raised =>
              /\ strategy = "explicit_separators" <=> (\E i \in DOMAIN pdf : pdf[i] = "sep")
              /\ strategy = "document_starts" <=>
                    /\ \A i \in DOMAIN pdf : pdf[i] # "sep"
                    /\ \E i \in DOMAIN pdf : i >= 2 /\ pdf[i] = "start"

\* C1 witness: a PDF with both a separator page and a later document start is
\* grouped on its separators
C1_Witness ==
    /\ pc = "done" /\ strategy = "explicit_separators" /\ ~exception_raised
    /\ \E i, j \in DOMAIN pdf : i >= 2 /\ pdf[i] = "start" /\ pdf[j] = "sep"
    /\ Len(oficio_groups) >= 2

\* C2: on the email path, when no exception was raised, declared count d and
\* extracted count e fix the classification and the policy: d = 0 is
\* no_declaration_proceeding and proceeds; d > 0, e = 0 is no_oficios_found
\* and halts; d = e > 0 is exact_match and proceeds; d > 0, e > 0, d # e is
\* partial_match and proceeds.  Proceeding enqueues an OCR job for each of the
\* e oficios and creates the batch record; halting enqueues nothing, creates
\* no batch record and invokes the validation-error notification.
C2_EmailValidationPolicy ==
    (pc = "done" /\ outcome \in {"processed", "validation_failed", "raised"}
                 /\ ~exception_raised) =>
        LET d == declared
            e == Len(oficios)
            st == validation_result.validation_status
            proceeds == /\ outcome = "processed"
                        /\ ocr_queue = [i \in 1..e |-> oficios[i].sequence_number]
                        /\ Len(batch_records) = 1
                        /\ batch_records[1].total_oficios = e
            halts == /\ outcome = "validation_failed"
                     /\ ocr_queue = <<>>
                     /\ batch_records = <<>>
                     /\ "validation_error" \in SeqToSet(notifications)
        IN /\ d = 0 => (st = "no_declaration_proceeding" /\ proceeds)
           /\ (d > 0 /\ e = 0) => (st = "no_oficios_found" /\ halts)
           /\ (d = e /\ e > 0) => (st = "exact_match" /\ proceeds)
           /\ (d > 0 /\ e > 0 /\ d # e) => (st = "partial_match" /\ proceeds)

\* C2 witness: 2 declared, 3 extracted is a partial match that proceeds
C2_Witness ==
    /\ pc = "done" /\ ~exception_raised /\ outcome = "processed"
    /\ declared = 2 /\ Len(oficios) = 3
    /\ validation_result.validation_status = "partial_match"
    /\ Len(ocr_queue) = 3

\* C4: whichever strategy is used, every group is a non-empty run of
\* consecutive page indices inside [0, total_pages), the groups are in
\* ascending page order, and no page index is in two groups.
C4_GroupsAreOrderedPageRanges ==
    (pc = "done" /\ strategy \in EmailStrategies) =>
        /\ \A g \in DOMAIN oficio_groups :
              /\ Len(oficio_groups[g]) >= 1
              /\ \A i \in DOMAIN oficio_groups[g] :
                    /\ oficio_groups[g][i] \in 0..(Len(pdf) - 1)
                    /\ i > 1 => oficio_groups[g][i] = oficio_groups[g][i - 1] + 1
        /\ \A g \in 1..(Len(oficio_groups) - 1) :
              oficio_groups[g][Len(oficio_groups[g])] < oficio_groups[g + 1][1]
        /\ \A p \in 0..(Len(pdf) - 1) : Occurrences(oficio_groups, p) <= 1

\* C4 witness: three documents found by their start pages
C4_Witness ==
    /\ pc = "done" /\ strategy = "document_starts"
    /\ Len(oficio_groups) = 3 /\ Len(oficio_groups[1]) >= 2

\* =====================================================================
\* s3_document_processor: direct upload
\* =====================================================================
\* extract_batch_metadata_from_pdf: {} (no quantity, no empresa) when the PDF has
\* no page or cannot be read; otherwise the quantity on the first page and an
\* empresa that is the extracted name (longer than 3) or 'No especificado'
extract_batch_metadata_from_pdf(p, quantity_on_page, F) ==
    IF Len(p) = 0 \/ Fails(F, "extract_config", 0)
    THEN [cantidad_oficios |-> 0, empresa_len |-> 0, empty |-> TRUE]
    ELSE [cantidad_oficios |-> quantity_on_page, empresa_len |-> 15, empty |-> FALSE]

validate_config_data(config_data) ==
    ~(config_data.cantidad_oficios <= 0) /\ ~(config_data.empresa_len < 3)

count_separators_in_pdf(p, F) ==
    IF Fails(F, "count_separators", 0) THEN 0
    ELSE Len(PagesOfKind(p, S3StartPage(Len(p)), "sep"))

validate_quantity(cantidad_declarada, cantidad_extraida) ==
    LET st == IF cantidad_declarada = 0 THEN "no_declaration_proceeding"
              ELSE IF cantidad_extraida = 0 THEN "no_oficios_found"
              ELSE IF cantidad_declarada = cantidad_extraida THEN "exact_match"
              ELSE "mismatch_warning"
    IN [success |-> st # "no_oficios_found",
        validation_status |-> st,
        cantidad_declarada |-> cantidad_declarada,
        cantidad_extraida |-> cantidad_extraida]

\* a plausible slip: the halt rule tests the success flag, which a mismatch leaves True
HaltsOnQuantity_OnFailure(quantity_validation) == ~quantity_validation.success

\* the halt rule of process_pdf_from_s3
HaltsOnQuantity(quantity_validation) ==
    quantity_validation.validation_status = "mismatch_warning"

\* one oficio per page when no separator is found; [] on an exception
split_pdf_into_oficios_skip_config(p, F) ==
    LET total_pages == Len(p)
        start_page == S3StartPage(total_pages)
        separador_pages == PagesOfKind(p, start_page, "sep")
    IN IF Fails(F, "split", 0) THEN <<>>
       ELSE IF separador_pages # <<>>
            THEN split_by_separators(separador_pages, start_page, total_pages)
            ELSE [k \in 1..(total_pages - start_page) |-> <<start_page + k - 1>>]

PutFailsAt(F, n) == {k \in 1..n : Fails(F, "put_object", k)}

\* the number of leading calls that succeed before the first one that raises
SucceedBefore(failing, n) ==
    IF failing = {} THEN n
    ELSE (CHOOSE k \in failing : \A j \in failing : k <= j) - 1

ConfigFailed(config_data) ==
    [success |-> FALSE, validation_status |-> "config_invalid",
     cantidad_declarada |-> config_data.cantidad_oficios, cantidad_extraida |-> -1]

InitS3 ==
    /\ pdf \in PDFs({"text", "sep"})
    /\ declared \in 0..MaxDeclared
    /\ fn = "none" /\ groups = <<>>
    /\ pc = "received" /\ outcome = "none" /\ exception_raised = FALSE
    /\ explicit_separators = <<>> /\ oficio_starts = <<>> /\ strategy = "none"
    /\ oficio_groups = <<>> /\ oficios = <<>> /\ validation_result = NoValidation
    /\ s3_objects = <<>> /\ ocr_queue = <<>> /\ batch_records = <<>>
    /\ notifications = <<>>
    /\ ValidateIdle /\ BackendIdle

\* process_s3_event on a key that is not a PDF, or whose object cannot be
\* fetched: nothing is read, and no config_data means no notification
S3NotProcessed ==
    /\ pc = "received"
    /\ \E why \in {"skipped", "download_failed"} :
          /\ outcome' = why
          /\ exception_raised' = (why = "download_failed")
    /\ pc' = "done"
    /\ UNCHANGED <<pdf, declared, splitVars, validateVars, backendVars, explicit_separators, oficio_starts, strategy,
                   oficio_groups, oficios, validation_result, s3_objects, ocr_queue,
                   batch_records, notifications>>

\* process_s3_event on a PDF that was downloaded, halting before the split:
\* the configuration is invalid or the quantity validation found a mismatch
S3Halted ==
    /\ pc = "received"
    /\ \E F \in FaultSets(MaxFaults) :
          LET config_data == extract_batch_metadata_from_pdf(pdf, declared, F)
              cantidad_extraida == count_separators_in_pdf(pdf, F) + 1
              quantity_validation ==
                  validate_quantity(config_data.cantidad_oficios, cantidad_extraida)
          IN /\ ~validate_config_data(config_data) \/ HaltsOnQuantity(quantity_validation)
             /\ IF ~validate_config_data(config_data)
                THEN /\ outcome' = "config_invalid"
                     /\ validation_result' = ConfigFailed(config_data)
                     /\ exception_raised' = (Len(pdf) > 0 /\ Fails(F, "extract_config", 0))
                ELSE /\ outcome' = "quantity_mismatch"
                     /\ validation_result' = quantity_validation
                     /\ exception_raised' = Fails(F, "count_separators", 0)
    /\ notifications' = <<"validation_error">>
    /\ pc' = "done"
    /\ UNCHANGED <<pdf, declared, splitVars, validateVars, backendVars, explicit_separators, oficio_starts, strategy,
                   oficio_groups, oficios, s3_objects, ocr_queue, batch_records>>

\* process_s3_event on a PDF that passed both validations: split, store,
\* track and enqueue
ProcessS3Event ==
    /\ pc = "received"
    /\ \E F \in FaultSets(MaxFaults), tracking_table \in BOOLEAN :
          LET config_data == extract_batch_metadata_from_pdf(pdf, declared, F)
              cantidad_extraida == count_separators_in_pdf(pdf, F) + 1
              quantity_validation ==
                  validate_quantity(config_data.cantidad_oficios, cantidad_extraida)
              split == split_pdf_into_oficios_skip_config(pdf, F)
              stored == SucceedBefore(PutFailsAt(F, Len(split)), Len(split))
              sent == SucceedBefore(SendFailsAt(F, Len(split)), Len(split))
              record_fails == Fails(F, "dynamo", 0)
          IN /\ validate_config_data(config_data)
             /\ ~HaltsOnQuantity(quantity_validation)
             /\ validation_result' = quantity_validation
             /\ explicit_separators' = PagesOfKind(pdf, S3StartPage(Len(pdf)), "sep")
             /\ strategy' = IF PagesOfKind(pdf, S3StartPage(Len(pdf)), "sep") # <<>>
                            THEN "separadores" ELSE "una_pagina_por_oficio"
             /\ oficio_groups' = split
             /\ s3_objects' = SubSeq(split, 1, stored)
             /\ IF split = <<>>
                THEN /\ outcome' = "no_oficios"
                     /\ oficios' = <<>>
                     /\ notifications' = <<"validation_error">>
                     /\ ocr_queue' = <<>>
                     /\ batch_records' = <<>>
                     /\ exception_raised' = (Fails(F, "count_separators", 0)
                                               \/ Fails(F, "split", 0))
                ELSE IF stored < Len(split)
                THEN /\ outcome' = "technical_error"
                     /\ oficios' = <<>>
                     /\ notifications' = <<>>
                     /\ ocr_queue' = <<>>
                     /\ batch_records' = <<>>
                     /\ exception_raised' = TRUE
                ELSE /\ outcome' = "processed"
                     /\ oficios' = [i \in 1..Len(split) |->
                                       [sequence_number |-> i, page_range |-> split[i]]]
                     /\ notifications' = <<>>
                     /\ batch_records' =
                           IF tracking_table /\ ~record_fails
                           THEN <<[total_oficios |-> Len(split),
                                   validation_status |-> quantity_validation.validation_status]>>
                           ELSE <<>>
                     /\ ocr_queue' = [i \in 1..sent |-> i]
                     /\ exception_raised' = \/ Fails(F, "count_separators", 0)
                                            \/ tracking_table /\ record_fails
                                            \/ sent < Len(split)
    /\ pc' = "done"
    /\ UNCHANGED <<pdf, declared, splitVars, validateVars, backendVars, oficio_starts>>

NextS3 ==
    \/ S3NotProcessed
    \/ S3Halted
    \/ ProcessS3Event

SpecS3 == InitS3 /\ [][NextS3]_vars

\* the quantity the handler validated: separator pages + 1
CountedQuantity ==
    IF validation_result.cantidad_extraida # -1 THEN validation_result.cantidad_extraida
    ELSE Len(PagesOfKind(pdf, S3StartPage(Len(pdf)), "sep")) + 1

C9_SplitCountEqualsValidated ==
    (pc = "done" /\ outcome = "processed" /\ ~exception_raised) =>
        /\ Len(oficio_groups) = validation_result.cantidad_extraida
        /\ Len(s3_objects) = validation_result.cantidad_extraida
        /\ Len(ocr_queue) = validation_result.cantidad_extraida
        /\ Len(oficio_groups) = validation_result.cantidad_declarada

\* =====================================================================
\* SpecValidate: the three quantity validators on the same counts
\* =====================================================================
\* shared/validators.py; int(cantidad_declarada * 0.1) truncates
OficiosValidator_validate_count(cantidad_extraida, cantidad_declarada) ==
    LET tolerance == Max2(1, cantidad_declarada \div 10)
        difference == IF cantidad_extraida >= cantidad_declarada
                      THEN cantidad_extraida - cantidad_declarada
                      ELSE cantidad_declarada - cantidad_extraida
    IN IF cantidad_extraida = 0 THEN [success |-> FALSE, warning |-> FALSE]
       ELSE IF cantidad_declarada = 0 THEN [success |-> TRUE, warning |-> TRUE]
       ELSE IF cantidad_extraida = cantidad_declarada
            THEN [success |-> TRUE, warning |-> FALSE]
       ELSE IF difference <= tolerance THEN [success |-> TRUE, warning |-> TRUE]
       ELSE [success |-> FALSE, warning |-> FALSE]

\* process_s3_email_event halts on `not validation_result['success']`
EmailDecision(d, e) == IF ValidateEmail(d, e).success THEN "proceed" ELSE "halt"

\* process_pdf_from_s3 halts on validation_status == 'mismatch_warning'
S3Decision(d, e) == IF HaltsOnQuantity(validate_quantity(d, e)) THEN "halt" ELSE "proceed"

\* document_processor halts on `not validation_result.success`
ValidatorDecision(d, e) ==
    IF OficiosValidator_validate_count(e, d).success THEN "proceed" ELSE "halt"

InitValidate ==
    /\ declared \in 0..MaxDeclared
    /\ extracted \in 0..MaxPages
    /\ email_decision = "none" /\ s3_decision = "none" /\ validator_decision = "none"
    /\ pdf = <<>> /\ fn = "none" /\ groups = <<>>
    /\ HandlerIdle /\ BackendIdle

ValidateOnEmailPath ==
    /\ email_decision = "none"
    /\ email_decision' = EmailDecision(declared, extracted)
    /\ UNCHANGED <<pdf, declared, splitVars, handlerVars, backendVars, extracted,
                   s3_decision, validator_decision>>

ValidateOnUploadPath ==
    /\ s3_decision = "none"
    /\ s3_decision' = S3Decision(declared, extracted)
    /\ UNCHANGED <<pdf, declared, splitVars, handlerVars, backendVars, extracted,
                   email_decision, validator_decision>>

ValidateWithOficiosValidator ==
    /\ validator_decision = "none"
    /\ validator_decision' = ValidatorDecision(declared, extracted)
    /\ UNCHANGED <<pdf, declared, splitVars, handlerVars, backendVars, extracted,
                   email_decision, s3_decision>>

NextValidate ==
    \/ ValidateOnEmailPath
    \/ ValidateOnUploadPath
    \/ ValidateWithOficiosValidator

SpecValidate == InitValidate /\ [][NextValidate]_vars

\* C10: for every declared count d >= 0 and extracted count e >= 0 the email
\* validator, the direct-upload validator with its halt rule and
\* OficiosValidator.validate_count reach the same proceed-or-halt decision.
C10_SamePolicyOnEveryPath ==
    (email_decision # "none" /\ s3_decision # "none" /\ validator_decision # "none") =>
        (email_decision = s3_decision /\ s3_decision = validator_decision)

\* =====================================================================
\* SpecRetry: the retry poller
\* =====================================================================
MaxTime == 30           \* minutes the clock is followed
MaxRetries == 3
NextRetryMinutes == 5   \* int(job.get('next_retry_in_seconds', 300)) seconds

\* timedelta(minutes=5 * (retry_count + 1))
MinWaitMinutes(retry_count) == 5 * (retry_count + 1)

retryable_errors ==
    {"timeout", "capacity exceeded", "429", "rate limit", "connection",
     "temporary", "unavailable"}

\* error messages the processor stores with status 'error', each as the set of
\* lower-cased fragments it contains
ErrorMessages == {{"timeout"}, {"429", "rate limit"}, {"invalid document"}}

\* a slip: the keyword test is dropped
should_retry_job_AnyError(j, t) ==
    IF j.retry_count >= MaxRetries THEN FALSE
    ELSE IF t - j.error_at < MinWaitMinutes(j.retry_count) THEN FALSE
    ELSE TRUE
should_retry_job(j, t) ==
    IF j.retry_count >= MaxRetries THEN FALSE
    ELSE IF t - j.error_at < MinWaitMinutes(j.retry_count) THEN FALSE
    ELSE (j.error_message \cap retryable_errors) # {}

is_retry_time(j, t) ==
    IF j.retry_scheduled_at = -1 THEN TRUE
    ELSE t >= j.retry_scheduled_at + NextRetryMinutes

\* the calls of retry_job that can raise: the update to 'queued', the queue
\* send, and the update to 'failed_permanently' inside the except block
RetryCalls == {"update_item", "send_message", "mark_failed"}

\* update_item(... status = 'queued', retry_count = item.retry_count + 1 ...)
UpdateQueued(stored, item, t) ==
    [stored EXCEPT !.status = "queued", !.retry_count = item.retry_count + 1,
                   !.retry_attempted_at = t]

\* update_item(... status = 'failed_permanently' ...), swallowed when it raises
MarkFailedPermanently(stored, F) ==
    IF "mark_failed" \in F THEN stored
    ELSE [stored EXCEPT !.status = "failed_permanently"]

\* retry_job(item) at time t against the stored item, with the calls in F raising
retry_job(stored, item, t, F) ==
    IF "update_item" \in F
    THEN [job |-> MarkFailedPermanently(stored, F), sent |-> 0, returned |-> FALSE]
    ELSE IF "send_message" \in F
    THEN [job |-> MarkFailedPermanently(UpdateQueued(stored, item, t), F),
          sent |-> 0, returned |-> FALSE]
    ELSE [job |-> UpdateQueued(stored, item, t), sent |-> 1, returned |-> TRUE]

FreshJob ==
    [status |-> "pending", retry_count |-> 0, error_at |-> 0,
     retry_attempted_at |-> 0, error_message |-> {}, retry_scheduled_at |-> -1]

\* items the second scan looks for: status 'retrying', with or without
\* retry_scheduled_at
RetryingItems ==
    {[status |-> "retrying", retry_count |-> rc, error_at |-> 0,
      retry_attempted_at |-> 0, error_message |-> {"timeout"},
      retry_scheduled_at |-> at] : rc \in 0..MaxRetries, at \in {-1, 0}}

InitRetry ==
    /\ job \in {FreshJob} \cup RetryingItems
    /\ now = 0
    /\ processing_queue = (IF job.status = "pending" THEN 1 ELSE 0)
    /\ last_poll = NoPoll
    /\ failures = 0 /\ requeued = 0
    /\ OverlapIdle /\ OcrIdle /\ CrmIdle
    /\ pdf = <<>> /\ declared = 0 /\ fn = "none" /\ groups = <<>>
    /\ HandlerIdle /\ ValidateIdle

Tick ==
    /\ now < MaxTime
    /\ now' = now + 1
    /\ UNCHANGED <<otherVars, job, processing_queue, last_poll, failures, requeued,
                   overlapVars>>

\* the processor takes the job's message and fails: status 'error', error_at
\* now, and an error message that holds a retryable keyword or does not
ProcessorFails ==
    /\ processing_queue > 0
    /\ processing_queue' = processing_queue - 1
    /\ \E error_message \in ErrorMessages :
          job' = [job EXCEPT !.status = "error", !.error_at = now,
                             !.error_message = error_message]
    /\ failures' = failures + 1
    /\ UNCHANGED <<otherVars, now, last_poll, requeued, overlapVars>>

\* the processor takes the job's message and completes the job
ProcessorSucceeds ==
    /\ processing_queue > 0
    /\ processing_queue' = processing_queue - 1
    /\ job' = [job EXCEPT !.status = "completed"]
    /\ UNCHANGED <<otherVars, now, last_poll, failures, requeued, overlapVars>>

\* lambda_handler of the poller: the job is in failed_jobs when its status is
\* 'error' and in retry_jobs when it is 'retrying'; retry_job is called when
\* should_retry_job / is_retry_time accepts it
RetryLambdaHandler ==
    /\ job.status \in {"error", "retrying"}
    /\ \E F \in SUBSET RetryCalls :
          LET list == IF job.status = "error" THEN "failed_jobs" ELSE "retry_jobs"
              accepted == IF job.status = "error" THEN should_retry_job(job, now)
                          ELSE is_retry_time(job, now)
              r == retry_job(job, job, now, F)
          IN  IF accepted
              THEN /\ job' = r.job
                   /\ processing_queue' = processing_queue + r.sent
                   /\ requeued' = requeued + r.sent
                   /\ last_poll' = [list |-> list, item |-> job, at |-> now,
                                    retried |-> TRUE, sent |-> r.sent,
                                    returned |-> r.returned, after |-> r.job]
              ELSE /\ UNCHANGED <<job, processing_queue, requeued>>
                   /\ last_poll' = [list |-> list, item |-> job, at |-> now,
                                    retried |-> FALSE, sent |-> 0,
                                    returned |-> FALSE, after |-> job]
    /\ UNCHANGED <<otherVars, now, failures, overlapVars>>

NextRetry ==
    \/ Tick
    \/ ProcessorFails
    \/ ProcessorSucceeds
    \/ RetryLambdaHandler

SpecRetry == InitRetry /\ [][NextRetry]_vars

\* C8: the minimum wait between a job's last error and its next re-queue
\* grows exponentially: a job in 'error' re-queued at retry_count k >= 1 has
\* waited at least twice the minimum wait enforced at retry_count k - 1.
C8_BackoffAtLeastDoubles ==
    (last_poll.list = "failed_jobs" /\ last_poll.retried
        /\ last_poll.item.retry_count >= 1) =>
        last_poll.at - last_poll.item.error_at
            >= 2 * MinWaitMinutes(last_poll.item.retry_count - 1)

C12_ConsistentOutcomeOfRetryJob ==
    last_poll.retried =>
        \/ last_poll.after.status = "queued" /\ last_poll.sent = 1
        \/ last_poll.after.status = "failed_permanently" /\ last_poll.sent = 0

NumPollers == 2         \* invocations of lambda_handler that can be running at once
Pollers == 1..NumPollers

IdleInvocation == [pc |-> "idle", item |-> NoJob]

\* the job has failed and its item is in status 'error'; the invocations
\* overlap within seconds, so the clock (in minutes) stands still at the time
\* they run
InitOverlap ==
    /\ \E error_message \in ErrorMessages, retry_count \in 0..MaxRetries :
          job = [FreshJob EXCEPT !.status = "error", !.error_message = error_message,
                                 !.retry_count = retry_count]
    /\ now \in 0..MaxTime
    /\ processing_queue = 0
    /\ last_poll = NoPoll
    /\ failures = job.retry_count + 1 /\ requeued = job.retry_count
    /\ invocations = [p \in Pollers |-> IdleInvocation]
    /\ OcrIdle /\ CrmIdle
    /\ pdf = <<>> /\ declared = 0 /\ fn = "none" /\ groups = <<>>
    /\ HandlerIdle /\ ValidateIdle

\* find_failed_jobs: the invocation reads the items in status 'error'
ScanFailedJobs(p) ==
    /\ invocations[p].pc = "idle"
    /\ job.status = "error"
    /\ invocations' = [invocations EXCEPT ![p] = [pc |-> "scanned", item |-> job]]
    /\ UNCHANGED <<otherVars, retryVars>>

\* should_retry_job on the scanned item; when it accepts, retry_job's
\* update_item writes status 'queued' and the scanned retry_count + 1
UpdateScannedJob(p) ==
    /\ invocations[p].pc = "scanned"
    /\ IF should_retry_job(invocations[p].item, now)
       THEN /\ job' = UpdateQueued(job, invocations[p].item, now)
            /\ invocations' = [invocations EXCEPT ![p].pc = "updated"]
       ELSE /\ job' = job
            /\ invocations' = [invocations EXCEPT ![p] = IdleInvocation]
    /\ UNCHANGED <<otherVars, now, processing_queue, last_poll, failures, requeued>>

\* retry_job's sqs.send_message, then the invocation returns
SendRetryMessage(p) ==
    /\ invocations[p].pc = "updated"
    /\ processing_queue' = processing_queue + 1
    /\ requeued' = requeued + 1
    /\ invocations' = [invocations EXCEPT ![p] = IdleInvocation]
    /\ UNCHANGED <<otherVars, job, now, last_poll, failures>>

NextOverlap ==
    \/ ProcessorFails
    \/ ProcessorSucceeds
    \/ \E p \in Pollers : ScanFailedJobs(p)
    \/ \E p \in Pollers : UpdateScannedJob(p)
    \/ \E p \in Pollers : SendRetryMessage(p)

SpecOverlap == InitOverlap /\ [][NextOverlap]_vars

\* C14: for each failure of the job at most one re-processing message is sent
\* and retry_count rises by one, also when invocations of the poller overlap.
C14_OneMessagePerFailure ==
    /\ requeued <= failures
    /\ job.retry_count <= failures

\* =====================================================================
\* SpecOcr: the two OCR processors handling the queue message of a batch
\* oficio, one call to S3 / DynamoDB / SQS / the OCR API per step
\* =====================================================================
MaxDeliveries == 2      \* times the queue hands the job's message to a processor

OcrHandlers == {"ocr_processor", "processor"}

\* TrackingService.update_job_status / update_oficio_status: both log and
\* swallow a failing update_item, so the stored status stays as it was
update_job_status(stored, status, ok) == IF ok THEN status ELSE stored

\* a slip: a failing put_object is logged and swallowed
save_ocr_result_Swallows(stored, ok) ==
    [ocr_result |-> IF ok THEN "saved" ELSE stored, raised |-> FALSE]
\* storage_service.save_ocr_result / save_ocr_result_to_s3: put_object, and a
\* failure is raised again
save_ocr_result(stored, ok) ==
    [ocr_result |-> IF ok THEN "saved" ELSE stored, raised |-> ~ok]

\* send_to_crm_queue_enhanced logs a failing send_message and returns;
\* send_to_crm_queue logs it and raises again
send_to_crm_queue(handler, ok) ==
    [sent |-> ok, raised |-> (~ok /\ handler = "processor")]

InitOcr ==
    /\ ocr_handler \in OcrHandlers
    /\ crm_queue_url \in BOOLEAN
    /\ ocr_pc = "idle"
    /\ tracking_status = "queued"
    /\ ocr_result = "none"
    /\ crm_queue = 0
    /\ deliveries = 0
    /\ ocr_log = <<>>
    /\ ocr_succeeded = FALSE /\ crm_sent = FALSE /\ ocr_returned = "none"
    /\ pdf = <<>> /\ declared = 0 /\ fn = "none" /\ groups = <<>>
    /\ HandlerIdle /\ ValidateIdle /\ RetryIdle /\ OverlapIdle /\ CrmIdle

\* process_sqs_message / process_batch_oficio_job take the message and write
\* the status 'ocr_processing' / 'processing'
ReceiveOcrMessage ==
    /\ ocr_pc \in {"idle", "done"}
    /\ deliveries < MaxDeliveries
    /\ deliveries' = deliveries + 1
    /\ ocr_pc' = "received"
    /\ \E ok \in BOOLEAN :
          tracking_status' =
              update_job_status(tracking_status,
                  IF ocr_handler = "ocr_processor" THEN "ocr_processing" ELSE "processing",
                  ok)
    /\ ocr_log' = <<>>
    /\ ocr_succeeded' = FALSE /\ crm_sent' = FALSE /\ ocr_returned' = "none"
    /\ UNCHANGED <<frontVars, retryVars, overlapVars, crmVars, ocr_handler,
                   crm_queue_url, ocr_result, crm_queue>>

\* the except blocks: write status 'error' and return success False
HandleOcrException ==
    /\ \E ok \in BOOLEAN :
          tracking_status' = update_job_status(tracking_status, "error", ok)
    /\ ocr_pc' = "done"
    /\ ocr_returned' = "failure"

\* the time check, the download of the oficio PDF and the OCR extraction (with
\* enrichment and formatting): each can fail, and every failure ends the
\* handling with status 'error'
ExtractText ==
    /\ ocr_pc = "received"
    /\ \E ok \in BOOLEAN :
          IF ok
          THEN /\ ocr_pc' = "extracted"
               /\ ocr_succeeded' = TRUE
               /\ UNCHANGED <<tracking_status, ocr_returned>>
          ELSE /\ HandleOcrException
               /\ UNCHANGED ocr_succeeded
    /\ UNCHANGED <<frontVars, retryVars, overlapVars, crmVars, ocr_handler,
                   crm_queue_url, ocr_result, crm_queue, deliveries, ocr_log, crm_sent>>

SaveOcrResult ==
    /\ ocr_pc = "extracted"
    /\ \E ok \in BOOLEAN :
          LET r == save_ocr_result(ocr_result, ok)
          IN  /\ ocr_result' = r.ocr_result
              /\ IF r.raised
                 THEN /\ HandleOcrException
                      /\ UNCHANGED ocr_log
                 ELSE /\ ocr_pc' = "saved"
                      /\ ocr_log' = Append(ocr_log, "save_ocr_result")
                      /\ UNCHANGED <<tracking_status, ocr_returned>>
    /\ UNCHANGED <<frontVars, retryVars, overlapVars, crmVars, ocr_handler,
                   crm_queue_url, crm_queue, deliveries, ocr_succeeded, crm_sent>>

\* the status update to 'ocr_completed' (and, in ocr_processor, the batch
\* progress recomputed from the job statuses)
UpdateOcrCompleted ==
    /\ ocr_pc = "saved"
    /\ \E ok \in BOOLEAN :
          tracking_status' = update_job_status(tracking_status, "ocr_completed", ok)
    /\ ocr_log' = Append(ocr_log, "ocr_completed")
    /\ ocr_pc' = "marked"
    /\ UNCHANGED <<frontVars, retryVars, overlapVars, crmVars, ocr_handler,
                   crm_queue_url, ocr_result, crm_queue, deliveries, ocr_succeeded,
                   crm_sent, ocr_returned>>

\* `if CRM_QUEUE_URL:` send the CRM message, else write status 'completed'
SendToCrmQueue ==
    /\ ocr_pc = "marked"
    /\ \E ok \in BOOLEAN :
          IF crm_queue_url
          THEN LET r == send_to_crm_queue(ocr_handler, ok)
               IN  /\ crm_queue' = crm_queue + (IF r.sent THEN 1 ELSE 0)
                   /\ crm_sent' = r.sent
                   /\ ocr_log' = IF r.sent THEN Append(ocr_log, "crm_message") ELSE ocr_log
                   /\ IF r.raised
                      THEN HandleOcrException
                      ELSE /\ ocr_pc' = "handed"
                           /\ UNCHANGED <<tracking_status, ocr_returned>>
          ELSE /\ tracking_status' = update_job_status(tracking_status, "completed", ok)
               /\ ocr_pc' = "handed"
               /\ UNCHANGED <<crm_queue, crm_sent, ocr_log, ocr_returned>>
    /\ UNCHANGED <<frontVars, retryVars, overlapVars, crmVars, ocr_handler,
                   crm_queue_url, ocr_result, deliveries, ocr_succeeded>>

\* the statistics and metrics of ocr_processor (an exception there reaches the
\* except block), then the return with success True
ReturnOcrSuccess ==
    /\ ocr_pc = "handed"
    /\ \E ok \in BOOLEAN :
          IF ok \/ ocr_handler = "processor"
          THEN /\ ocr_pc' = "done"
               /\ ocr_returned' = "success"
               /\ UNCHANGED tracking_status
          ELSE HandleOcrException
    /\ UNCHANGED <<frontVars, retryVars, overlapVars, crmVars, ocr_handler,
                   crm_queue_url, ocr_result, crm_queue, deliveries, ocr_log,
                   ocr_succeeded, crm_sent>>

NextOcr ==
    \/ ReceiveOcrMessage
    \/ ExtractText
    \/ SaveOcrResult
    \/ UpdateOcrCompleted
    \/ SendToCrmQueue
    \/ ReturnOcrSuccess

SpecOcr == InitOcr /\ [][NextOcr]_vars

\* position of the first x in the step log, 0 when it is not there
FirstIndex(log, x) ==
    IF \E i \in DOMAIN log : log[i] = x
    THEN CHOOSE i \in DOMAIN log : log[i] = x /\ \A j \in 1..(i - 1) : log[j] # x
    ELSE 0

C16_CrmMessageOrError ==
    (ocr_handler = "ocr_processor" /\ crm_queue_url /\ ocr_succeeded /\ ocr_pc = "done") =>
        (crm_sent \/ tracking_status = "error")

\* =====================================================================
\* SpecCrm: the CRM integrator handling the CRM queue message of a job, one
\* call to S3 / Creatio / DynamoDB per step
\* =====================================================================
CreatioAttempts == 3    \* max_retries of create_schema_compatible_creatio_request

\* get_enhanced_ocr_result_from_s3: the stored object when get_object works
\* and validate_ocr_result_structure accepts it, None otherwise
get_enhanced_ocr_result_from_s3(stored_result, ok) ==
    IF ok /\ stored_result = "saved" THEN "saved" ELSE "none"

\* the batch counter update_tracking_status asks for after its update_item:
\* ADD completed_count 1 when the status is 'completed', ADD error_count 1
\* otherwise; a failing update is logged and swallowed
update_batch_completion_counter(counters, success, ok) ==
    IF ~ok THEN counters
    ELSE IF success THEN [counters EXCEPT !.completed_count = @ + 1]
    ELSE [counters EXCEPT !.error_count = @ + 1]

\* the OCR processor has sent the job's CRM message; the result object is the
\* saved one, one that fails validate_ocr_result_structure, or missing
InitCrm ==
    /\ ocr_result \in {"saved", "invalid", "none"}
    /\ tracking_status = "ocr_completed"
    /\ crm_queue = 1
    /\ deliveries = 0
    /\ crm_pc = "idle"
    /\ crm_attempt = 0
    /\ crm_status = "none"
    /\ crm_cases = 0
    /\ batch_counters = [completed_count |-> 0, error_count |-> 0]
    /\ crm_case_created = FALSE
    /\ crm_returned = "none"
    /\ ocr_handler = "none" /\ crm_queue_url = TRUE /\ ocr_pc = "idle"
    /\ ocr_log = <<>> /\ ocr_succeeded = FALSE /\ crm_sent = FALSE
    /\ ocr_returned = "none"
    /\ pdf = <<>> /\ declared = 0 /\ fn = "none" /\ groups = <<>>
    /\ HandlerIdle /\ ValidateIdle /\ RetryIdle /\ OverlapIdle

\* the except block of process_enhanced_sqs_message: log and return success
\* False, without a status update
HandleCrmException ==
    /\ crm_pc' = "done"
    /\ crm_returned' = "failure"

\* lambda_handler hands the message to process_enhanced_sqs_message, which
\* reads job_id and batch_id from it; the queue delivers at least once, so a
\* handled message can be handed over again
ReceiveCrmMessage ==
    /\ crm_pc \in {"idle", "done"}
    /\ crm_queue > 0
    /\ deliveries < MaxDeliveries
    /\ deliveries' = deliveries + 1
    /\ crm_attempt' = 0
    /\ crm_status' = "none"
    /\ crm_case_created' = FALSE
    /\ crm_pc' = "received"
    /\ crm_returned' = "none"
    /\ UNCHANGED <<frontVars, retryVars, overlapVars, ocr_handler, crm_queue_url, ocr_pc,
                   tracking_status, ocr_result, crm_queue, ocr_log, ocr_succeeded,
                   crm_sent, ocr_returned, crm_cases, batch_counters>>

\* `if not ocr_result:` asks for status 'crm_error'
GetOcrResult ==
    /\ crm_pc = "received"
    /\ \E ok \in BOOLEAN :
          IF get_enhanced_ocr_result_from_s3(ocr_result, ok) = "saved"
          THEN crm_pc' = "loaded" /\ crm_status' = crm_status
          ELSE crm_pc' = "updating" /\ crm_status' = "crm_error"
    /\ UNCHANGED <<frontVars, retryVars, overlapVars, ocrVars, crm_attempt, crm_cases,
                   batch_counters, crm_case_created, crm_returned>>

\* map_ocr_data_to_known_schema logs an exception and raises it again
MapOcrData ==
    /\ crm_pc = "loaded"
    /\ \E ok \in BOOLEAN :
          IF ok THEN crm_pc' = "mapped" /\ crm_returned' = crm_returned
          ELSE HandleCrmException
    /\ UNCHANGED <<frontVars, retryVars, overlapVars, ocrVars, crm_attempt, crm_status,
                   crm_cases, batch_counters, crm_case_created>>

\* one attempt of create_schema_compatible_creatio_request: authenticate and
\* create the case; success asks for status 'completed', the last failed
\* attempt for 'crm_error'
CreateCreatioCase ==
    /\ crm_pc = "mapped"
    /\ crm_attempt < CreatioAttempts
    /\ \E ok \in BOOLEAN :
          IF ok
          THEN /\ crm_cases' = crm_cases + 1
               /\ crm_case_created' = TRUE
               /\ crm_status' = "completed"
               /\ crm_pc' = "updating"
               /\ crm_attempt' = crm_attempt
          ELSE /\ crm_attempt' = crm_attempt + 1
               /\ IF crm_attempt + 1 < CreatioAttempts
                  THEN crm_pc' = crm_pc /\ crm_status' = crm_status
                  ELSE crm_pc' = "updating" /\ crm_status' = "crm_error"
               /\ UNCHANGED <<crm_cases, crm_case_created>>
    /\ UNCHANGED <<frontVars, retryVars, overlapVars, ocrVars, batch_counters,
                   crm_returned>>

\* update_tracking_status: update_item with the status asked for; a failure is
\* logged and the batch counter is skipped
UpdateTrackingStatus ==
    /\ crm_pc = "updating"
    /\ \E ok \in BOOLEAN :
          IF ok
          THEN /\ tracking_status' = crm_status
               /\ crm_pc' = "counting"
               /\ crm_returned' = crm_returned
          ELSE /\ tracking_status' = tracking_status
               /\ crm_pc' = "done"
               /\ crm_returned' = (IF crm_case_created THEN "success" ELSE "failure")
    /\ UNCHANGED <<frontVars, retryVars, overlapVars, ocr_handler, crm_queue_url, ocr_pc,
                   ocr_result, crm_queue, deliveries, ocr_log, ocr_succeeded, crm_sent,
                   ocr_returned, crm_attempt, crm_status, crm_cases, batch_counters,
                   crm_case_created>>

UpdateBatchCompletionCounter ==
    /\ crm_pc = "counting"
    /\ \E ok \in BOOLEAN :
          batch_counters' =
              update_batch_completion_counter(batch_counters, crm_status = "completed", ok)
    /\ crm_pc' = "done"
    /\ crm_returned' = (IF crm_case_created THEN "success" ELSE "failure")
    /\ UNCHANGED <<frontVars, retryVars, overlapVars, ocrVars, crm_attempt, crm_status,
                   crm_cases, crm_case_created>>

NextCrm ==
    \/ ReceiveCrmMessage
    \/ GetOcrResult
    \/ MapOcrData
    \/ CreateCreatioCase
    \/ UpdateTrackingStatus
    \/ UpdateBatchCompletionCounter

SpecCrm == InitCrm /\ [][NextCrm]_vars

\* C17: every CRM queue message that process_enhanced_sqs_message has handled
\* leaves its job in a final status: 'completed' exactly when a CRM case was
\* created, 'crm_error' in every other case.
C17_FinalStatusAfterHandling ==
    crm_pc = "done" =>
        /\ tracking_status \in {"completed", "crm_error"}
        /\ (tracking_status = "completed") <=> crm_case_created

\* C18: handling the same CRM queue message more than once has the effect of
\* handling it once: at most one CRM case exists for the job and the batch's
\* completed_count was raised at most once for it.
C18_RedeliveryIsIdempotent ==
    /\ crm_cases <= 1
    /\ batch_counters.completed_count <= 1

\* =====================================================================
\* SpecSplit: the grouping functions applied to drawn inputs
\* =====================================================================
InitSplit ==
    /\ pdf \in PDFs({"text", "sep"})
    /\ declared \in 0..MaxDeclared
    /\ fn = "none"
    /\ groups = <<>>
    /\ HandlerIdle /\ ValidateIdle /\ BackendIdle

\* each separator splitter is reached only when its caller detected a separator
\* (`if explicit_separators:`, `if separator_pages:`, `if separador_pages:`)
ApplyGroupByExplicitSeparators ==
    /\ fn = "none"
    /\ PagesOfKind(pdf, 0, "sep") # <<>>
    /\ fn' = "group_pages_by_explicit_separators"
    /\ groups' = group_pages_by_explicit_separators(Len(pdf), PagesOfKind(pdf, 0, "sep"))
    /\ UNCHANGED <<pdf, declared, handlerVars, validateVars, backendVars>>

ApplyServiceSplitBySeparators ==
    /\ fn = "none"
    /\ PagesOfKind(pdf, 0, "sep") # <<>>
    /\ fn' = "PDFService._split_by_separators"
    /\ groups' = PDFService_split_by_separators(Len(pdf), PagesOfKind(pdf, 0, "sep"))
    /\ UNCHANGED <<pdf, declared, handlerVars, validateVars, backendVars>>

ApplyS3SplitBySeparators ==
    /\ fn = "none"
    /\ PagesOfKind(pdf, S3StartPage(Len(pdf)), "sep") # <<>>
    /\ fn' = "split_by_separators"
    /\ groups' = split_by_separators(PagesOfKind(pdf, S3StartPage(Len(pdf)), "sep"),
                                     S3StartPage(Len(pdf)), Len(pdf))
    /\ UNCHANGED <<pdf, declared, handlerVars, validateVars, backendVars>>

ApplyDivideByPageEstimation ==
    /\ fn = "none"
    /\ fn' = "divide_by_page_estimation"
    /\ groups' = divide_by_page_estimation(Len(pdf), declared)
    /\ UNCHANGED <<pdf, declared, handlerVars, validateVars, backendVars>>

NextSplit ==
    \/ ApplyGroupByExplicitSeparators
    \/ ApplyServiceSplitBySeparators
    \/ ApplyS3SplitBySeparators
    \/ ApplyDivideByPageEstimation

SpecSplit == InitSplit /\ [][NextSplit]_vars

SeparatorFns ==
    {"group_pages_by_explicit_separators", "PDFService._split_by_separators",
     "split_by_separators"}

\* the first page the applied function processes
FirstProcessedPage == IF fn = "split_by_separators" THEN S3StartPage(Len(pdf)) ELSE 0

\* C5: after separator-based splitting (email, service or direct upload) no
\* separator page is inside an oficio, and every non-separator page from the
\* first processed page to the last page is in exactly one oficio.
C5_SeparatorOnlyMarksBoundary ==
    fn \in SeparatorFns =>
        /\ \A p \in PagesOf(groups) : p \in 0..(Len(pdf) - 1) /\ pdf[p + 1] # "sep"
        /\ \A p \in FirstProcessedPage..(Len(pdf) - 1) :
              pdf[p + 1] # "sep" => Occurrences(groups, p) = 1

\* C5 witness: separators first, adjacent and last, with content in between
C5_Witness ==
    /\ fn \in SeparatorFns
    /\ Len(pdf) >= 5
    /\ pdf[1] = "sep" /\ pdf[2] = "text" /\ pdf[3] = "sep" /\ pdf[4] = "sep"
    /\ pdf[Len(pdf)] = "sep"
    /\ Len(groups) >= 1

\* every page 0..T-1 is in exactly one group
CoversEveryPageOnce(gs, total_pages) ==
    /\ PagesOf(gs) = 0..(total_pages - 1)
    /\ \A p \in 0..(total_pages - 1) : Occurrences(gs, p) = 1

\* C6 as stated: for T >= 1 and n >= 1 page estimation returns exactly n
\* groups that together hold every page exactly once.
C6_ExactlyDeclaredGroups ==
    (fn = "divide_by_page_estimation" /\ Len(pdf) >= 1 /\ declared >= 1) =>
        /\ Len(groups) = declared
        /\ CoversEveryPageOnce(groups, Len(pdf))

\* C6 amended: for T >= 1 and n >= 1 page estimation returns exactly
\* min(n, T) groups (n groups whenever n <= T) that together hold every page
\* exactly once.
C6_MinDeclaredPagesGroups ==
    (fn = "divide_by_page_estimation" /\ Len(pdf) >= 1 /\ declared >= 1) =>
        /\ Len(groups) = Min2(declared, Len(pdf))
        /\ CoversEveryPageOnce(groups, Len(pdf))

\* C6 witness: more oficios declared than pages, and a case with a remainder
C6_Witness ==
    /\ fn = "divide_by_page_estimation"
    /\ Len(pdf) = 2 /\ declared = 3
    /\ Len(groups) = 2

\* C7 as stated: for 1 <= n <= T the sizes of any two groups differ by at
\* most one page.
C7_SizesDifferByAtMostOne ==
    (fn = "divide_by_page_estimation" /\ declared >= 1 /\ declared <= Len(pdf)) =>
        \A g, h \in DOMAIN groups : Len(groups[g]) - Len(groups[h]) <= 1

\* C7 amended: for 1 <= n <= T every group but the last has exactly T div n
\* pages and the last has T div n + T mod n pages, so two sizes differ by at
\* most T mod n (at most n - 1) pages.
C7_RemainderGoesToLastGroup ==
    (fn = "divide_by_page_estimation" /\ declared >= 1 /\ declared <= Len(pdf)) =>
        /\ Len(groups) = declared
        /\ \A g \in 1..(Len(groups) - 1) : Len(groups[g]) = Len(pdf) \div declared
        /\ Len(groups[Len(groups)]) = (Len(pdf) \div declared) + (Len(pdf) % declared)
        /\ \A g, h \in DOMAIN groups : Len(groups[g]) - Len(groups[h]) <= Len(pdf) % declared

\* C7 witness: 5 pages declared as 3 oficios are cut 1, 1, 3
C7_Witness ==
    /\ fn = "divide_by_page_estimation"
    /\ Len(pdf) = 5 /\ declared = 3
    /\ Len(groups) = 3
    /\ Len(groups[1]) = 1 /\ Len(groups[3]) = 3
====
